---------------------------- MODULE Spec2Model ----------------------------
(***************************************************************************)
(* etherhosts (src/src/main.rs): create hosts and ethers files from CSV.   *)
(*                                                                         *)
(* A Rust String is modelled as a sequence of one-character strings, a     *)
(* Vec<String> as a sequence of such sequences.  Offsets into a String are *)
(* 0-based as in the source; the character at offset i is line[i + 1].     *)
(***************************************************************************)
EXTENDS Integers, Sequences, FiniteSets, TLC

VARIABLES
    txt,        \* process_csv_line: the argument (the line being typed)
    srccells,   \* the cells a quoted-field encoding was made from, if any
    s,          \* clean_ipaddr / clean_mac / clean_hostname: the argument
    edits,      \* how many edits made s out of a base string
    ret,        \* the value the function returned, once it has
    pc,         \* main: where the driver is
    readable,   \* main: whether fs::read_to_string succeeds
    input,      \* main: the input file, a sequence of lines
    lines,      \* main: the lines iterator (what is left of input)
    r,          \* main: the enumerate() counter of the row loop
    cols,       \* main: ipaddrcol, hostnamecol, maccol, found_i, found_h, found_m
    hoststxt,   \* main: the hosts accumulator, a sequence of lines
    etherstxt,  \* main: the ethers accumulator, a sequence of lines
    stdout,     \* main: what println! printed, a sequence of records
    files       \* the file system: what was written to hostsfile and ethersfile

pureVars   == <<txt, srccells, s, edits, ret>>
driverVars == <<pc, readable, input, lines, r, cols, hoststxt, etherstxt, stdout, files>>
vars       == <<txt, srccells, s, edits, ret, pc, readable, input, lines, r, cols,
                hoststxt, etherstxt, stdout, files>>

----------------------------------------------------------------------------
(* Characters and strings                                                   *)

DQ    == "\""
COMMA == ","
SPACE == " "
TAB   == "\t"

\* char::is_whitespace over the characters of the model (str::trim uses it)
WhiteSpace == {SPACE, TAB}

RECURSIVE trim_start(_)
trim_start(str) ==
    IF str # <<>> /\ Head(str) \in WhiteSpace THEN trim_start(Tail(str)) ELSE str

RECURSIVE trim_end(_)
trim_end(str) ==
    IF str # <<>> /\ str[Len(str)] \in WhiteSpace
    THEN trim_end(SubSeq(str, 1, Len(str) - 1))
    ELSE str

\* str::trim
trim(str) == trim_end(trim_start(str))

----------------------------------------------------------------------------
(* process_csv_line                                                         *)

\* line.find("\"\""): the offset of the first "" of the line, -1 for Option::None
find_ddq(line) ==
    LET hits == {i \in 0..(Len(line) - 2) : line[i + 1] = DQ /\ line[i + 2] = DQ}
    IN  IF hits = {} THEN -1 ELSE CHOOSE i \in hits : \A j \in hits : i <= j

\* a replace_range that leaves the second quote of the pair in the line
replace_range_keeps_quote(line, i) ==
    SubSeq(line, 1, i) \o <<SPACE>> \o SubSeq(line, i + 2, Len(line))

\* line.replace_range(i..=i+1, " ")
replace_range(line, i) ==
    SubSeq(line, 1, i) \o <<SPACE>> \o SubSeq(line, i + 3, Len(line))

\* the while loop over f: [line, ddq] once no "" is left
RECURSIVE collapse_ddq(_, _)
collapse_ddq(line, ddq) ==
    LET f == find_ddq(line)
    IN  IF f = -1
        THEN [line |-> line, ddq |-> ddq]
        ELSE collapse_ddq(replace_range(line, f), Append(ddq, f))

\* ddq.contains(&i)
contains(ddq, i) == \E k \in 1..Len(ddq) : ddq[k] = i

\* the for loop over line.into_bytes().iter().enumerate(), from offset i on,
\* followed by cells.push(cell)
RECURSIVE scan_bytes(_, _, _, _, _, _)
scan_bytes(bytes, ddq, i, quoted, cells, cell) ==
    IF i >= Len(bytes)
    THEN Append(cells, cell)
    ELSE LET c == bytes[i + 1]
         IN  IF c = DQ
             THEN scan_bytes(bytes, ddq, i + 1, ~quoted, cells, cell)
             ELSE IF ~quoted /\ c = COMMA
             THEN scan_bytes(bytes, ddq, i + 1, quoted, Append(cells, cell), <<>>)
             ELSE IF contains(ddq, i)
             THEN scan_bytes(bytes, ddq, i + 1, quoted, cells, Append(cell, DQ))
             ELSE scan_bytes(bytes, ddq, i + 1, quoted, cells, Append(cell, c))

process_csv_line(text) ==
    LET pre == collapse_ddq(text, <<>>)
    IN  scan_bytes(pre.line, pre.ddq, 0, FALSE, <<>>, <<>>)

----------------------------------------------------------------------------
(* Result<String, String>, and the regular expressions                      *)

Ok(str)  == [ok |-> TRUE,  val |-> str,  err |-> ""]
Err(msg) == [ok |-> FALSE, val |-> <<>>, err |-> msg]

\* \d and [0-9].  The regex crate's \d is every Unicode decimal digit, but a
\* cell is built from single bytes cast to char (main.rs:34-35), so no character
\* above U+00FF reaches a validator, and up to U+00FF the decimal digits are
\* exactly these.
Digits == {"0", "1", "2", "3", "4", "5", "6", "7", "8", "9"}

LOWER == <<"a", "b", "c", "d", "e", "f", "g", "h", "i", "j", "k", "l", "m",
           "n", "o", "p", "q", "r", "s", "t", "u", "v", "w", "x", "y", "z">>
UPPER == <<"A", "B", "C", "D", "E", "F", "G", "H", "I", "J", "K", "L", "M",
           "N", "O", "P", "Q", "R", "S", "T", "U", "V", "W", "X", "Y", "Z">>

Range(seq) == {seq[k] : k \in 1..Len(seq)}

\* A regular expression is matched from a set of offsets to the set of offsets
\* its matches can end at; alternation is union, sequence is composition.
\* One character of the class cls:
Class(str, from, cls) ==
    {p + 1 : p \in {q \in from : q < Len(str) /\ str[q + 1] \in cls}}

\* Regex::is_match of ^e$, given the offsets where matches of e from offset 0 end
is_match(str, ends) == Len(str) \in ends

\* the octet with 25\d for 25[0-5]
re_octet_25d(str, from) ==
    Class(str, Class(str, Class(str, from, {"2"}), {"5"}), Digits)
    \cup
    Class(str,
          Class(str, Class(str, from, {"2"}), {"0", "1", "2", "3", "4"})
          \cup Class(str, Class(str, from, {"1"}), Digits)
          \cup Class(str, from, Digits \ {"0"})
          \cup from,
          Digits)

\* (25[0-5]|(2[0-4]|1\d|[1-9]|)\d)
re_octet(str, from) ==
    Class(str, Class(str, Class(str, from, {"2"}), {"5"}),
          {"0", "1", "2", "3", "4", "5"})
    \cup
    Class(str,
          Class(str, Class(str, from, {"2"}), {"0", "1", "2", "3", "4"})
          \cup Class(str, Class(str, from, {"1"}), Digits)
          \cup Class(str, from, Digits \ {"0"})
          \cup from,
          Digits)

\* ((25[0-5]|(2[0-4]|1\d|[1-9]|)\d)(\.))
re_octet_dot(str, from) == Class(str, re_octet(str, from), {"."})

\* ((25[0-5]|(2[0-4]|1\d|[1-9]|)\d)(\.)){3}(25[0-5]|(2[0-4]|1\d|[1-9]|)\d)
re_ipaddr(str, from) ==
    re_octet(str, re_octet_dot(str, re_octet_dot(str, re_octet_dot(str, from))))

\* [a-f0-9]
HexLower == {"a", "b", "c", "d", "e", "f"} \cup Digits

\* [a-f0-9]{2}
re_hex2(str, from) == Class(str, Class(str, from, HexLower), HexLower)

\* (:[a-f0-9]{2})
re_colon_hex2(str, from) == re_hex2(str, Class(str, from, {":"}))

\* [a-f0-9]{2}(:[a-f0-9]{2}){5}
re_mac(str, from) ==
    re_colon_hex2(str, re_colon_hex2(str, re_colon_hex2(str,
        re_colon_hex2(str, re_colon_hex2(str, re_hex2(str, from))))))

\* [a-zA-Z0-9-\. ]
HostChars == Range(LOWER) \cup Range(UPPER) \cup Digits \cup {"-", ".", SPACE}

re_hostchar(str, from) == Class(str, from, HostChars)

\* ([a-zA-Z0-9-\. ]*)
RECURSIVE re_hostname(_, _)
re_hostname(str, from) ==
    LET next == from \cup re_hostchar(str, from)
    IN  IF next = from THEN from ELSE re_hostname(str, next)

----------------------------------------------------------------------------
(* clean_ipaddr, clean_mac, clean_hostname                                  *)

clean_ipaddr(str) ==
    LET t == trim(str)
    IN  IF is_match(t, re_ipaddr(t, {0}))
        THEN Ok(t)
        ELSE Err("ipaddr failed regex check")

\* a closure that leaves the hyphens
hyphen_kept(c) == c

\* the closure of s.chars().map(..): windows hyphens into colons
hyphen_to_colon(c) == IF c = "-" THEN ":" ELSE c

\* char::to_lowercase
to_lowercase(c) ==
    IF \E k \in 1..Len(UPPER) : UPPER[k] = c
    THEN LOWER[CHOOSE k \in 1..Len(UPPER) : UPPER[k] = c]
    ELSE c

clean_mac(str) ==
    LET t == trim(str)
    IN  IF Len(t) = 0
        THEN Err("")
        ELSE LET u == [k \in 1..Len(t) |-> hyphen_to_colon(t[k])]
                 l == [k \in 1..Len(u) |-> to_lowercase(u[k])]
             IN  IF is_match(l, re_mac(l, {0}))
                 THEN Ok(l)
                 ELSE Err("macaddr failed regex check")

clean_hostname(str) ==
    LET t == trim(str)
    IN  IF Len(t) = 0
        THEN Err("")
        ELSE IF is_match(t, re_hostname(t, {0}))
             THEN Ok(t)
             ELSE Err("hostname failed regex check")

----------------------------------------------------------------------------
(* The values the variables hold while their part of the program is not run *)

NoRet == [done |-> FALSE, cells |-> <<>>, res |-> Err("")]
NoSrc == [set |-> FALSE, cells |-> <<>>]
NoCols == [ipaddrcol |-> 0, hostnamecol |-> 0, maccol |-> 0,
           found_i |-> FALSE, found_h |-> FALSE, found_m |-> FALSE]
NoFiles == [hosts |-> [written |-> FALSE, text |-> <<>>],
            ethers |-> [written |-> FALSE, text |-> <<>>]]

PureIdle ==
    /\ txt = <<>>
    /\ srccells = NoSrc
    /\ s = <<>>
    /\ edits = 0
    /\ ret = NoRet

DriverIdle ==
    /\ pc = "idle"
    /\ readable = TRUE
    /\ input = <<>>
    /\ lines = <<>>
    /\ r = 0
    /\ cols = NoCols
    /\ hoststxt = <<>>
    /\ etherstxt = <<>>
    /\ stdout = <<>>
    /\ files = NoFiles

----------------------------------------------------------------------------
(* process_csv_line on every line of at most MaxLineLen characters, and on  *)
(* the quoted-field encoding of every sequence of at most MaxCells cells    *)

MaxLineLen == 7
MaxCells   == 2
MaxCellLen == 2

CsvAlphabet  == {DQ, COMMA, SPACE, "a"}
CellAlphabet == {DQ, COMMA, "a"}

\* the sequences over set of length at most n
RECURSIVE SeqsUpTo(_, _)
SeqsUpTo(set, n) ==
    IF n = 0
    THEN {<<>>}
    ELSE LET shorter == SeqsUpTo(set, n - 1)
         IN  shorter \cup {Append(q, x) : q \in shorter, x \in set}

\* a cell as a quoted field: wrapped in quotes, every inner quote doubled
RECURSIVE DoubleQuotes(_)
DoubleQuotes(cell) ==
    IF cell = <<>> THEN <<>>
    ELSE (IF Head(cell) = DQ THEN <<DQ, DQ>> ELSE <<Head(cell)>>)
         \o DoubleQuotes(Tail(cell))

QuoteField(cell) == <<DQ>> \o DoubleQuotes(cell) \o <<DQ>>

\* the fields joined with commas
RECURSIVE EncodeRow(_)
EncodeRow(cells) ==
    IF Len(cells) = 1 THEN QuoteField(cells[1])
    ELSE QuoteField(Head(cells)) \o <<COMMA>> \o EncodeRow(Tail(cells))

CsvInit ==
    /\ PureIdle
    /\ DriverIdle

TypeChar(c) ==
    /\ ~ret.done
    /\ ~srccells.set
    /\ Len(txt) < MaxLineLen
    /\ txt' = Append(txt, c)
    /\ UNCHANGED <<srccells, s, edits, ret>>
    /\ UNCHANGED driverVars

\* the sequences of cells that are encoded
SourceRows == SeqsUpTo(SeqsUpTo(CellAlphabet, MaxCellLen), MaxCells) \ {<<>>}

EncodeCells ==
    /\ ~ret.done
    /\ ~srccells.set
    /\ txt = <<>>
    /\ \E cells \in SourceRows :
          /\ srccells' = [set |-> TRUE, cells |-> cells]
          /\ txt' = EncodeRow(cells)
    /\ UNCHANGED <<s, edits, ret>>
    /\ UNCHANGED driverVars

SplitLine ==
    /\ ~ret.done
    /\ ret' = [ret EXCEPT !.done = TRUE, !.cells = process_csv_line(txt)]
    /\ UNCHANGED <<txt, srccells, s, edits>>
    /\ UNCHANGED driverVars

CsvNext ==
    \/ \E c \in CsvAlphabet : TypeChar(c)
    \/ EncodeCells
    \/ SplitLine

SpecCsv == CsvInit /\ [][CsvNext]_vars

\* The reference scanner of C7, from 1-based position p on: a "" pair appends
\* one quote and leaves the state, any other quote toggles the state, a comma
\* ends the cell in Unquoted state only, everything else is appended.
RECURSIVE RefScan(_, _, _, _, _)
RefScan(line, p, quoted, cells, cell) ==
    IF p > Len(line)
    THEN Append(cells, cell)
    ELSE IF line[p] = DQ /\ p < Len(line) /\ line[p + 1] = DQ
    THEN RefScan(line, p + 2, quoted, cells, Append(cell, DQ))
    ELSE IF line[p] = DQ
    THEN RefScan(line, p + 1, ~quoted, cells, cell)
    ELSE IF line[p] = COMMA /\ ~quoted
    THEN RefScan(line, p + 1, quoted, Append(cells, cell), <<>>)
    ELSE RefScan(line, p + 1, quoted, cells, Append(cell, line[p]))

\* the 0-based offsets, in the original line, of its leftmost non-overlapping
\* "" pairs
RECURSIVE RefPairs(_, _)
RefPairs(line, p) ==
    IF p >= Len(line) THEN <<>>
    ELSE IF line[p] = DQ /\ line[p + 1] = DQ
    THEN <<p - 1>> \o RefPairs(line, p + 2)
    ELSE RefPairs(line, p + 1)

\* the reference scanner's state at the end of the line, and the commas it
\* met in Unquoted state
RECURSIVE RefEnd(_, _, _, _)
RefEnd(line, p, quoted, commas) ==
    IF p > Len(line)
    THEN [quoted |-> quoted, commas |-> commas]
    ELSE IF line[p] = DQ /\ p < Len(line) /\ line[p + 1] = DQ
    THEN RefEnd(line, p + 2, quoted, commas)
    ELSE IF line[p] = DQ
    THEN RefEnd(line, p + 1, ~quoted, commas)
    ELSE IF line[p] = COMMA /\ ~quoted
    THEN RefEnd(line, p + 1, quoted, commas + 1)
    ELSE RefEnd(line, p + 1, quoted, commas)

\* C7: whenever process_csv_line has split a line, its cells are those of the
\* reference two-state scanner; the offsets recorded while collapsing the ""
\* pairs are those of the placeholders in the final line (the k-th pair of the
\* original line, moved left by the k-1 characters deleted before it); there
\* is one more cell than commas met in Unquoted state; the empty line gives
\* one empty cell.
C7_SplitterMatchesReference ==
    ret.done =>
        LET pre   == collapse_ddq(txt, <<>>)
            pairs == RefPairs(txt, 1)
        IN  /\ ret.cells = RefScan(txt, 1, FALSE, <<>>, <<>>)
            /\ Len(pre.ddq) = Len(pairs)
            /\ \A k \in 1..Len(pairs) :
                  /\ pre.ddq[k] = pairs[k] - (k - 1)
                  /\ pre.line[pre.ddq[k] + 1] = SPACE
            /\ Len(pre.line) = Len(txt) - Len(pairs)
            /\ Len(ret.cells) = RefEnd(txt, 1, FALSE, 0).commas + 1
            /\ (txt = <<>> => ret.cells = << <<>> >>)

\* a split line with two "" pairs, a comma inside quotes, a comma outside, and
\* a quote left open at the end of the line
C7_Witness ==
    /\ ret.done
    /\ ~srccells.set
    /\ Len(RefPairs(txt, 1)) >= 2
    /\ RefEnd(txt, 1, FALSE, 0).quoted
    /\ Len(ret.cells) = 2
    /\ \E k \in 1..Len(ret.cells) : \E j \in 1..Len(ret.cells[k]) :
          ret.cells[k][j] = COMMA

\* C10: splitting the quoted-field encoding of a sequence of cells returns the
\* sequence of cells.
C10_QuotedRoundTrip ==
    (ret.done /\ srccells.set) => ret.cells = srccells.cells

----------------------------------------------------------------------------
(* The validators on every string within MaxEdits edits (one character      *)
(* replaced, inserted or deleted) of a base string                          *)

MaxEdits == 1

IP_192_168_1_1 == <<"1", "9", "2", ".", "1", "6", "8", ".", "1", ".", "1">>
IP_ZERO        == <<"0", ".", "0", ".", "0", ".", "0">>
IP_MAX         == <<"2", "5", "5", ".", "2", "5", "5", ".", "2", "5", "5", ".", "2", "5", "5">>
IP_OCTETS      == <<"2", "5", "0", ".", "2", "4", "9", ".", "1", "9", "9", ".", "9", "9">>
IP_256         == <<"2", "5", "6", ".", "1", ".", "1", ".", "1">>
IP_3_PARTS     == <<"1", ".", "2", ".", "3">>
IP_LEADING_0   == <<"0", "1", ".", "2", ".", "3", ".", "4">>
IP_PADDED      == <<" ", "1", "0", ".", "1", "0", "0", ".", "2", "0", "0", ".", "9", "\t">>
MAC_LOWER      == <<"a", "a", ":", "b", "b", ":", "c", "c", ":", "d", "d", ":", "e", "e", ":", "f", "f">>
MAC_WINDOWS    == <<"A", "A", "-", "B", "B", "-", "C", "C", "-", "D", "D", "-", "E", "E", "-", "F", "F">>
MAC_PADDED     == <<" ", "a", "a", ":", "b", "b", ":", "c", "c", ":", "d", "d", ":", "e", "e", ":", "f", "f", " ">>
MAC_SHORT      == <<"a", "a", ":", "b", "b", ":", "c", "c", ":", "d", "d", ":", "e", "e">>
MAC_BAD_HEX    == <<"g", "g", ":", "b", "b", ":", "c", "c", ":", "d", "d", ":", "e", "e", ":", "f", "f">>
MAC_DIGITS     == <<"0", "1", ":", "2", "3", ":", "4", "5", ":", "6", "7", ":", "8", "9", ":", "A", "b">>
MAC_MIXED      == <<"\t", "A", "a", "-", "b", "b", ":", "C", "C", ":", "d", "d", "-", "e", "e", ":", "0", "f", " ">>
BLANK          == <<" ", " ">>

IpBases  == {<<>>, IP_192_168_1_1, IP_ZERO, IP_MAX, IP_OCTETS, IP_256, IP_3_PARTS, IP_LEADING_0, IP_PADDED}
MacBases == {<<>>, MAC_LOWER, MAC_WINDOWS, MAC_PADDED, MAC_SHORT, MAC_BAD_HEX, MAC_DIGITS, MAC_MIXED, BLANK}

IpAlphabet  == {"0", "5", "6", ".", SPACE, "a"}
MacAlphabet == {"0", "b", "F", "g", ":", "-", SPACE}

ReplaceChar(c) ==
    /\ ~ret.done
    /\ edits < MaxEdits
    /\ \E p \in 1..Len(s) :
          /\ s[p] # c
          /\ s' = [s EXCEPT ![p] = c]
    /\ edits' = edits + 1
    /\ UNCHANGED <<txt, srccells, ret>>
    /\ UNCHANGED driverVars

InsertChar(c) ==
    /\ ~ret.done
    /\ edits < MaxEdits
    /\ \E p \in 0..Len(s) :
          s' = SubSeq(s, 1, p) \o <<c>> \o SubSeq(s, p + 1, Len(s))
    /\ edits' = edits + 1
    /\ UNCHANGED <<txt, srccells, ret>>
    /\ UNCHANGED driverVars

DeleteChar ==
    /\ ~ret.done
    /\ edits < MaxEdits
    /\ \E p \in 1..Len(s) :
          s' = SubSeq(s, 1, p - 1) \o SubSeq(s, p + 1, Len(s))
    /\ edits' = edits + 1
    /\ UNCHANGED <<txt, srccells, ret>>
    /\ UNCHANGED driverVars

ValidatorInit(bases) ==
    /\ txt = <<>>
    /\ srccells = NoSrc
    /\ s \in bases
    /\ edits = 0
    /\ ret = NoRet
    /\ DriverIdle

CallCleanIpaddr ==
    /\ ~ret.done
    /\ ret' = [ret EXCEPT !.done = TRUE, !.res = clean_ipaddr(s)]
    /\ UNCHANGED <<txt, srccells, s, edits>>
    /\ UNCHANGED driverVars

IpNext ==
    \/ \E c \in IpAlphabet : ReplaceChar(c)
    \/ \E c \in IpAlphabet : InsertChar(c)
    \/ DeleteChar
    \/ CallCleanIpaddr

SpecIp == ValidatorInit(IpBases) /\ [][IpNext]_vars

CallCleanMac ==
    /\ ~ret.done
    /\ ret' = [ret EXCEPT !.done = TRUE, !.res = clean_mac(s)]
    /\ UNCHANGED <<txt, srccells, s, edits>>
    /\ UNCHANGED driverVars

MacNext ==
    \/ \E c \in MacAlphabet : ReplaceChar(c)
    \/ \E c \in MacAlphabet : InsertChar(c)
    \/ DeleteChar
    \/ CallCleanMac

SpecMac == ValidatorInit(MacBases) /\ [][MacNext]_vars

\* the parts of a string between its dots
RECURSIVE RefDotParts(_, _, _)
RefDotParts(str, parts, part) ==
    IF str = <<>> THEN Append(parts, part)
    ELSE IF Head(str) = "." THEN RefDotParts(Tail(str), Append(parts, part), <<>>)
    ELSE RefDotParts(Tail(str), parts, Append(part, Head(str)))

DigitSeq == <<"0", "1", "2", "3", "4", "5", "6", "7", "8", "9">>

RefDigitValue(c) == (CHOOSE n \in 1..10 : DigitSeq[n] = c) - 1

RECURSIVE RefDecimalValue(_)
RefDecimalValue(part) ==
    IF part = <<>> THEN 0
    ELSE 10 * RefDecimalValue(SubSeq(part, 1, Len(part) - 1))
         + RefDigitValue(part[Len(part)])

\* a decimal octet: digits only, no leading zero, a value of 0..255
RefIsOctet(part) ==
    /\ Len(part) >= 1
    /\ \A k \in 1..Len(part) : part[k] \in Range(DigitSeq)
    /\ Len(part) > 1 => part[1] # "0"
    /\ RefDecimalValue(part) <= 255

RefIsDottedQuad(str) ==
    LET parts == RefDotParts(str, <<>>, <<>>)
    IN  /\ Len(parts) = 4
        /\ \A k \in 1..4 : RefIsOctet(parts[k])

\* C8: clean_ipaddr succeeds exactly when its trimmed argument is four
\* dot-separated decimal octets of 0..255 without leading zeros, and then
\* returns the trimmed argument unchanged.
C8_IpaddrStrictDottedQuad ==
    ret.done =>
        /\ ret.res.ok <=> RefIsDottedQuad(trim(s))
        /\ ret.res.ok => ret.res.val = trim(s)
        /\ ~ret.res.ok => ret.res.err # ""

\* an accepted address that was edited, needed trimming, and has octets of
\* one, two and three digits
C8_Witness ==
    /\ ret.done
    /\ ret.res.ok
    /\ edits > 0
    /\ ret.res.val # s
    /\ {Len(part) : part \in Range(RefDotParts(ret.res.val, <<>>, <<>>))} = {1, 2, 3}

\* the normal form of a character of a MAC address
RefNormalChar(c) ==
    IF c = "-" THEN ":"
    ELSE IF c \in Range(UPPER) THEN LOWER[CHOOSE k \in 1..26 : UPPER[k] = c]
    ELSE c

RefNormalize(str) == [k \in 1..Len(trim(str)) |-> RefNormalChar(trim(str)[k])]

\* six groups of two hex digits, separated by colons
RefIsMac(str) ==
    /\ Len(str) = 17
    /\ \A k \in 1..17 :
          IF k % 3 = 0
          THEN str[k] = ":"
          ELSE str[k] \in {"0", "1", "2", "3", "4", "5", "6", "7", "8", "9",
                           "a", "b", "c", "d", "e", "f"}

\* the argument in upper case, with the other separator, and padded
RefUpper(str) ==
    [k \in 1..Len(str) |->
        IF str[k] \in Range(LOWER)
        THEN UPPER[CHOOSE j \in 1..26 : LOWER[j] = str[k]]
        ELSE str[k]]

RefOtherSeparator(str) ==
    [k \in 1..Len(str) |->
        IF str[k] = ":" THEN "-" ELSE IF str[k] = "-" THEN ":" ELSE str[k]]

RefPadded(str) == <<TAB>> \o str \o <<SPACE, SPACE>>

\* C9: clean_mac succeeds exactly when its argument, trimmed, with hyphens as
\* colons and in lower case, is six colon-separated groups of two hex digits;
\* it then returns that string; an argument that differs only in case,
\* separators or surrounding whitespace gets the same result; and clean_mac
\* returns its own output unchanged.
C9_MacNormalForm ==
    ret.done =>
        /\ ret.res.ok <=> RefIsMac(RefNormalize(s))
        /\ ret.res.ok =>
              /\ ret.res.val = RefNormalize(s)
              /\ clean_mac(ret.res.val) = ret.res
        /\ clean_mac(RefUpper(s)) = ret.res
        /\ clean_mac(RefOtherSeparator(s)) = ret.res
        /\ clean_mac(RefPadded(s)) = ret.res

\* an accepted address that was edited and had upper case, a hyphen and
\* surrounding whitespace to normalize
C9_Witness ==
    /\ ret.done
    /\ ret.res.ok
    /\ edits > 0
    /\ \E k \in 1..Len(s) : s[k] = "-"
    /\ \E k \in 1..Len(s) : s[k] = ":"
    /\ \E k \in 1..Len(s) : s[k] \in Range(UPPER)
    /\ s[1] \in WhiteSpace

----------------------------------------------------------------------------
(* main                                                                     *)

NAME_IPADDR   == <<"i", "p", "a", "d", "d", "r">>
NAME_HOSTNAME == <<"h", "o", "s", "t", "n", "a", "m", "e">>
NAME_MACADDR  == <<"m", "a", "c", "a", "d", "d", "r">>

\* the first line of each output: the text and the formatted local time, as
\* one character
HostsHeader  == <<"# hosts automatically generated by etherhosts %F %T %Z">>
EthersHeader == <<"# ethers automatically generated by etherhosts %F %T %Z">>

\* one println!
Printed(kind, line, reason) == [kind |-> kind, line |-> line, reason |-> reason]

\* the for loop over header_row.iter().enumerate(), from column c on
RECURSIVE scan_header(_, _, _)
scan_header(header_row, c, found) ==
    IF c >= Len(header_row)
    THEN found
    ELSE LET field == header_row[c + 1]
         IN  IF field = NAME_IPADDR
             THEN scan_header(header_row, c + 1,
                      [found EXCEPT !.found_i = TRUE, !.ipaddrcol = c])
             ELSE IF field = NAME_HOSTNAME
             THEN scan_header(header_row, c + 1,
                      [found EXCEPT !.found_h = TRUE, !.hostnamecol = c])
             ELSE IF field = NAME_MACADDR
             THEN scan_header(header_row, c + 1,
                      [found EXCEPT !.found_m = TRUE, !.maccol = c])
             ELSE scan_header(header_row, c + 1, found)

\* found_i || found_h || found_m
any_found(found) == found.found_i \/ found.found_h \/ found.found_m

\* found_i && found_h && found_m
all_found(found) == found.found_i /\ found.found_h /\ found.found_m

\* r+1
row_number_from_1(rr) == rr + 1

\* r+2
row_number(rr) == rr + 2

\* no test of the reason
always_real_error(err) == TRUE

\* s.len() != 0
is_real_error(err) == err # ""

\* format!("{} {}\n", hostname, ipaddr)
hostline_swapped(ipaddr, hostname) == hostname \o <<SPACE>> \o ipaddr

\* format!("{} {}\n", ipaddr, hostname), without the line end
hostline(ipaddr, hostname) == ipaddr \o <<SPACE>> \o hostname

\* format!("{} {}\n", macaddr, ipaddr), without the line end
etherline(macaddr, ipaddr) == macaddr \o <<SPACE>> \o ipaddr

\* fields[col]: whether the index is in bounds (the indexing panics if not)
in_bounds(fields, col) == col < Len(fields)

\* One iteration of the row loop works on acc, the accumulators and the
\* output so far: [panic, hoststxt, etherstxt, stdout].
\* match clean_mac(&fields[maccol])
match_mac(fields, rr, found, acc, ipaddr) ==
    IF ~in_bounds(fields, found.maccol)
    THEN [acc EXCEPT !.panic = TRUE]
    ELSE LET m == clean_mac(fields[found.maccol + 1])
         IN  IF m.ok
             THEN [acc EXCEPT !.etherstxt = Append(@, etherline(m.val, ipaddr))]
             ELSE IF is_real_error(m.err)
             THEN [acc EXCEPT !.stdout =
                      Append(@, Printed("invalid macaddr", row_number(rr), m.err))]
             ELSE acc

\* match clean_hostname(&fields[hostnamecol]), and what follows it
match_hostname(fields, rr, found, acc, ipaddr) ==
    IF ~in_bounds(fields, found.hostnamecol)
    THEN [acc EXCEPT !.panic = TRUE]
    ELSE LET h == clean_hostname(fields[found.hostnamecol + 1])
             after ==
                 IF h.ok
                 THEN [acc EXCEPT !.hoststxt = Append(@, hostline(ipaddr, h.val))]
                 ELSE IF is_real_error(h.err)
                 THEN [acc EXCEPT !.stdout =
                          Append(@, Printed("invalid hostname", row_number(rr), h.err))]
                 ELSE acc
         IN  match_mac(fields, rr, found, after, ipaddr)

\* the Err arm without its continue: the row goes on with the trimmed cell
on_ipaddr_err_no_continue(fields, rr, found, acc, err) ==
    match_hostname(fields, rr, found,
        [acc EXCEPT !.stdout = Append(@, Printed("skipping line", row_number(rr), err))],
        trim(fields[found.ipaddrcol + 1]))

\* the Err arm of match clean_ipaddr: println! and continue
on_ipaddr_err(fields, rr, found, acc, err) ==
    [acc EXCEPT !.stdout = Append(@, Printed("skipping line", row_number(rr), err))]

\* the body of the row loop
loop_body(fields, rr, found, acc) ==
    IF ~in_bounds(fields, found.ipaddrcol)
    THEN [acc EXCEPT !.panic = TRUE]
    ELSE LET ip == clean_ipaddr(fields[found.ipaddrcol + 1])
         IN  IF ip.ok
             THEN match_hostname(fields, rr, found, acc, ip.val)
             ELSE on_ipaddr_err(fields, rr, found, acc, ip.err)

\* The banner, fs::read_to_string(inputfile).expect(..) and input.lines().
\* The three file names (main.rs:139-153) only say which files are read and
\* written: files.hosts is the file hostsfile names, files.ethers the file
\* ethersfile names, and the two names are taken to differ.
ReadInput ==
    /\ pc = "start"
    /\ stdout' = stdout \o <<Printed("Etherhosts", 0, ""), Printed("Usage", 0, "")>>
    /\ IF readable
       THEN /\ lines' = input
            /\ pc' = "header"
       ELSE /\ lines' = lines
            /\ pc' = "panicked"
    /\ UNCHANGED <<readable, input, r, cols, hoststxt, etherstxt, files>>
    /\ UNCHANGED pureVars

\* lines.next().expect(..), the header scan, the early return, the two header
\* lines
ReadHeader ==
    /\ pc = "header"
    /\ IF lines = <<>>
       THEN /\ pc' = "panicked"
            /\ UNCHANGED <<lines, cols, hoststxt, etherstxt, stdout>>
       ELSE LET header_row == process_csv_line(Head(lines))
                found      == scan_header(header_row, 0, cols)
            IN  /\ lines' = Tail(lines)
                /\ cols' = found
                /\ IF ~all_found(found)
                   THEN /\ stdout' = Append(stdout,
                               Printed("Couldn't find all the headers", 0, ""))
                        /\ pc' = "done"
                        /\ UNCHANGED <<hoststxt, etherstxt>>
                   ELSE /\ stdout' = Append(stdout, Printed("Input csv", 0, ""))
                        /\ hoststxt' = <<HostsHeader>>
                        /\ etherstxt' = <<EthersHeader>>
                        /\ pc' = "loop"
    /\ UNCHANGED <<readable, input, r, files>>
    /\ UNCHANGED pureVars

\* one iteration of for (r,line) in lines.enumerate()
ProcessRow ==
    /\ pc = "loop"
    /\ lines # <<>>
    /\ LET fields == process_csv_line(Head(lines))
           acc    == loop_body(fields, r, cols,
                         [panic |-> FALSE, hoststxt |-> hoststxt,
                          etherstxt |-> etherstxt, stdout |-> stdout])
       IN  /\ hoststxt' = acc.hoststxt
           /\ etherstxt' = acc.etherstxt
           /\ stdout' = acc.stdout
           /\ lines' = Tail(lines)
           /\ IF acc.panic
              THEN /\ pc' = "panicked"
                   /\ r' = r
              ELSE /\ pc' = "loop"
                   /\ r' = r + 1
    /\ UNCHANGED <<readable, input, cols, files>>
    /\ UNCHANGED pureVars

\* fs::write(hostsfile, hoststxt), which succeeds or not
WriteHosts ==
    /\ pc = "loop"
    /\ lines = <<>>
    /\ \E is_err \in BOOLEAN :
          IF is_err
          THEN /\ stdout' = Append(stdout, Printed("Unable to write to hosts file", 0, ""))
               /\ files' = files
          ELSE /\ stdout' = stdout
               /\ files' = [files EXCEPT !.hosts = [written |-> TRUE, text |-> hoststxt]]
    /\ pc' = "write_ethers"
    /\ UNCHANGED <<readable, input, lines, r, cols, hoststxt, etherstxt>>
    /\ UNCHANGED pureVars

\* fs::write(ethersfile, etherstxt), which succeeds or not
WriteEthers ==
    /\ pc = "write_ethers"
    /\ \E is_err \in BOOLEAN :
          IF is_err
          THEN /\ stdout' = Append(stdout, Printed("Unable to write to ethers file", 0, ""))
               /\ files' = files
          ELSE /\ stdout' = stdout
               /\ files' = [files EXCEPT !.ethers = [written |-> TRUE, text |-> etherstxt]]
    /\ pc' = "done"
    /\ UNCHANGED <<readable, input, lines, r, cols, hoststxt, etherstxt>>
    /\ UNCHANGED pureVars

----------------------------------------------------------------------------
(* The input files: a header line and at most MaxRows data lines            *)

MaxRows == 3

\* a header line, and the order of the columns under it
HEADER_STD       == [line  |-> <<"i", "p", "a", "d", "d", "r", ",", "h", "o", "s", "t", "n", "a", "m", "e", ",", "m", "a", "c", "a", "d", "d", "r">>,
                     order |-> <<"ip", "host", "mac">>]
HEADER_REORDERED == [line  |-> <<"m", "a", "c", "a", "d", "d", "r", ",", "n", "o", "t", "e", ",", "\"", "h", "o", "s", "t", "n", "a", "m", "e", "\"", ",", "i", "p", "a", "d", "d", "r">>,
                     order |-> <<"mac", "note", "host", "ip">>]
HEADER_NO_MAC    == [line  |-> <<"i", "p", "a", "d", "d", "r", ",", "h", "o", "s", "t", "n", "a", "m", "e">>,
                     order |-> <<"ip", "host", "mac">>]
HEADER_UPPER     == [line  |-> <<"I", "P", "A", "D", "D", "R", ",", "h", "o", "s", "t", "n", "a", "m", "e", ",", "m", "a", "c", "a", "d", "d", "r">>,
                     order |-> <<"ip", "host", "mac">>]

Headers == {HEADER_STD, HEADER_REORDERED, HEADER_NO_MAC, HEADER_UPPER}

\* a data line: its cells, laid out under the header; or a blank line
ROW_1 ==
    [raw |-> FALSE, line |-> <<>>,
     ip |-> <<"1", ".", "1", ".", "1", ".", "1">>,
     host |-> <<"h", "1">>,
     mac |-> <<"A", "A", "-", "B", "B", "-", "C", "C", "-", "D", "D", "-", "E", "E", "-", "0", "1">>,
     note |-> <<"x">>]
ROW_2_BAD_IP ==
    [raw |-> FALSE, line |-> <<>>,
     ip |-> <<"1", ".", "2", ".", "3">>,
     host |-> <<"h", "2">>,
     mac |-> <<"a", "a", ":", "b", "b", ":", "c", "c", ":", "d", "d", ":", "e", "e", ":", "0", "2">>,
     note |-> <<"x">>]
ROW_4_NO_HOST ==
    [raw |-> FALSE, line |-> <<>>,
     ip |-> <<"4", ".", "4", ".", "4", ".", "4">>,
     host |-> <<" ">>,
     mac |-> <<"a", "a", ":", "b", "b", ":", "c", "c", ":", "d", "d", ":", "e", "e", ":", "0", "4">>,
     note |-> <<"x">>]
ROW_5_BAD_HOST ==
    [raw |-> FALSE, line |-> <<>>,
     ip |-> <<"5", ".", "5", ".", "5", ".", "5">>,
     host |-> <<"h", "_", "5">>,
     mac |-> <<>>,
     note |-> <<"x">>]
ROW_6_BAD_MAC ==
    [raw |-> FALSE, line |-> <<>>,
     ip |-> <<" ", "6", ".", "6", ".", "6", ".", "6", " ">>,
     host |-> <<"\"", "H", "-", "6", ".", "l", "a", "n", "\"">>,
     mac |-> <<"a", "a", ":", "b", "b">>,
     note |-> <<"x">>]
ROW_BLANK ==
    [raw |-> TRUE, line |-> <<>>, ip |-> <<>>, host |-> <<>>, mac |-> <<>>, note |-> <<>>]

Rows == {ROW_1, ROW_2_BAD_IP, ROW_4_NO_HOST, ROW_5_BAD_HOST, ROW_6_BAD_MAC, ROW_BLANK}

RECURSIVE JoinCommas(_)
JoinCommas(cells) ==
    IF Len(cells) = 1 THEN cells[1]
    ELSE Head(cells) \o <<COMMA>> \o JoinCommas(Tail(cells))

DataLine(header, row) ==
    IF row.raw THEN row.line
    ELSE JoinCommas([k \in 1..Len(header.order) |-> row[header.order[k]]])

InputFiles ==
    {<<>>} \cup
    {<<header.line>> \o [k \in 1..Len(rows) |-> DataLine(header, rows[k])] :
        header \in Headers, rows \in SeqsUpTo(Rows, MaxRows)}

DriverInit ==
    /\ PureIdle
    /\ pc = "start"
    /\ \/ readable = TRUE  /\ input \in InputFiles
       \/ readable = FALSE /\ input = <<>>
    /\ lines = <<>>
    /\ r = 0
    /\ cols = NoCols
    /\ hoststxt = <<>>
    /\ etherstxt = <<>>
    /\ stdout = <<>>
    /\ files = NoFiles

DriverNext ==
    \/ ReadInput
    \/ ReadHeader
    \/ ProcessRow
    \/ WriteHosts
    \/ WriteEthers

Spec == DriverInit /\ [][DriverNext]_vars

----------------------------------------------------------------------------
(* The claims about main.  Physical line n of the input file is input[n];   *)
(* the header is line 1 and the data rows processed so far are 2..r+1.      *)

HeaderCells == process_csv_line(input[1])

HeaderHasAllNames ==
    /\ input # <<>>
    /\ {NAME_IPADDR, NAME_HOSTNAME, NAME_MACADDR} \subseteq Range(HeaderCells)

\* the 0-based column of the header cell that is name (the last one, if several)
RefCol(name) ==
    (CHOOSE k \in 1..Len(HeaderCells) :
        /\ HeaderCells[k] = name
        /\ \A j \in (k + 1)..Len(HeaderCells) : HeaderCells[j] # name) - 1

RefCells(n) == process_csv_line(input[n])

RefHasCell(n, name) == RefCol(name) < Len(RefCells(n))

RefCell(n, name) == RefCells(n)[RefCol(name) + 1]

RefBlank(cell) == trim(cell) = <<>>

Running == pc \in {"loop", "write_ethers", "done"} /\ HeaderHasAllNames

\* C1: with a readable input whose header has the three names, no data row
\* halts the run.
C1_NoRowHaltsTheRun ==
    (readable /\ HeaderHasAllNames) => pc # "panicked"

C2_State ==
    /\ pc \in {"start", "header"} => cols = NoCols /\ r = 0
    /\ (cols.found_i /\ cols.found_h /\ cols.found_m) =>
          /\ HeaderHasAllNames
          /\ cols.ipaddrcol = RefCol(NAME_IPADDR)
          /\ cols.hostnamecol = RefCol(NAME_HOSTNAME)
          /\ cols.maccol = RefCol(NAME_MACADDR)
    /\ (pc \in {"loop", "write_ethers"} \/ r > 0 \/ files # NoFiles
            \/ hoststxt # <<>> \/ etherstxt # <<>>) =>
          HeaderHasAllNames /\ cols.found_i /\ cols.found_h /\ cols.found_m
    /\ (readable /\ input # <<>> /\ ~HeaderHasAllNames
            /\ pc \notin {"start", "header"}) =>
          /\ pc = "done"
          /\ r = 0
          /\ lines = Tail(input)
          /\ files = NoFiles

\* C2: the column indices are those of the names in the first line, they are
\* set when the header is read, before any data row, and never change after;
\* when a name is missing from the header the run ends with no data row
\* processed and neither file written.
C2_HeaderResolvedOnce ==
    /\ []C2_State
    /\ [][pc \notin {"start", "header"} => cols' = cols]_vars

\* the run ended at a header without macaddr, data rows left unread
C2_Witness ==
    /\ pc = "done"
    /\ ~HeaderHasAllNames
    /\ cols.found_i /\ cols.found_h /\ ~cols.found_m
    /\ Len(lines) >= 2
    /\ files = NoFiles

C3_IpFails ==
    /\ pc = "loop"
    /\ lines # <<>>
    /\ LET fields == process_csv_line(Head(lines))
       IN  /\ cols.ipaddrcol < Len(fields)
           /\ ~clean_ipaddr(fields[cols.ipaddrcol + 1]).ok

\* C3: a step of the row loop on a row whose IP cell fails clean_ipaddr leaves
\* both accumulators (and the files) as they were, prints exactly one line,
\* "skipping line", and leaves the loop at the next row.
C3_BadIpSkipsRow ==
    [][C3_IpFails =>
          /\ hoststxt' = hoststxt
          /\ etherstxt' = etherstxt
          /\ files' = files
          /\ Len(stdout') = Len(stdout) + 1
          /\ SubSeq(stdout', 1, Len(stdout)) = stdout
          /\ stdout'[Len(stdout')].kind = "skipping line"
          /\ pc' = "loop"
          /\ lines' = Tail(lines)
          /\ r' = r + 1]_vars

RefAllValid(n) ==
    /\ RefHasCell(n, NAME_IPADDR) /\ clean_ipaddr(RefCell(n, NAME_IPADDR)).ok
    /\ RefHasCell(n, NAME_HOSTNAME) /\ clean_hostname(RefCell(n, NAME_HOSTNAME)).ok
    /\ RefHasCell(n, NAME_MACADDR) /\ clean_mac(RefCell(n, NAME_MACADDR)).ok

\* both files written; line 3 had a bad IP with a valid hostname and MAC and
\* gave no line, lines 2 and 4 gave theirs
C3_Witness ==
    /\ pc = "done"
    /\ HeaderHasAllNames
    /\ Len(input) = 4
    /\ RefAllValid(2) /\ RefAllValid(4)
    /\ RefHasCell(3, NAME_IPADDR) /\ ~clean_ipaddr(RefCell(3, NAME_IPADDR)).ok
    /\ RefHasCell(3, NAME_HOSTNAME) /\ clean_hostname(RefCell(3, NAME_HOSTNAME)).ok
    /\ RefHasCell(3, NAME_MACADDR) /\ clean_mac(RefCell(3, NAME_MACADDR)).ok
    /\ files.hosts.written /\ Len(files.hosts.text) = 3
    /\ files.ethers.written /\ Len(files.ethers.text) = 3
    /\ Cardinality({k \in 1..Len(stdout) : stdout[k].kind = "skipping line"}) = 1

\* the hosts lines and the ethers lines that physical lines 2..n give, the
\* columns being ic, hc and mc
RECURSIVE RefHostLines(_, _, _)
RefHostLines(n, ic, hc) ==
    IF n < 2 THEN <<>>
    ELSE LET cells == process_csv_line(input[n])
             ip    == clean_ipaddr(cells[ic + 1])
             host  == clean_hostname(cells[hc + 1])
         IN  RefHostLines(n - 1, ic, hc) \o
             (IF ip.ok
              THEN IF host.ok THEN <<ip.val \o <<SPACE>> \o host.val>> ELSE <<>>
              ELSE <<>>)

RECURSIVE RefEtherLines(_, _, _)
RefEtherLines(n, ic, mc) ==
    IF n < 2 THEN <<>>
    ELSE LET cells == process_csv_line(input[n])
             ip    == clean_ipaddr(cells[ic + 1])
             mac   == clean_mac(cells[mc + 1])
         IN  RefEtherLines(n - 1, ic, mc) \o
             (IF ip.ok
              THEN IF mac.ok THEN <<mac.val \o <<SPACE>> \o ip.val>> ELSE <<>>
              ELSE <<>>)

\* C4: after the rows processed so far, the hosts accumulator is the header
\* line and then, in row order, "<ip> <hostname>" for each row whose IP and
\* hostname validate, and the ethers accumulator is the header line and then
\* "<mac> <ip>" for each row whose IP and MAC validate, whatever the row's
\* other field is.
C4_AccumulatorsAreTheValidRows ==
    Running =>
        /\ hoststxt = <<HostsHeader>>
              \o RefHostLines(r + 1, RefCol(NAME_IPADDR), RefCol(NAME_HOSTNAME))
        /\ etherstxt = <<EthersHeader>>
              \o RefEtherLines(r + 1, RefCol(NAME_IPADDR), RefCol(NAME_MACADDR))

\* a finished run with a row that gave an ethers line and no hosts line, a
\* row that gave a hosts line and no ethers line, and a row that gave both
C4_Witness ==
    /\ pc = "done"
    /\ Running
    /\ files.hosts.written /\ files.ethers.written
    /\ \E a, b, c \in 2..Len(input) :
          /\ a < b /\ b < c
          /\ RefAllValid(a)
          /\ clean_ipaddr(RefCell(b, NAME_IPADDR)).ok
          /\ ~clean_hostname(RefCell(b, NAME_HOSTNAME)).ok
          /\ clean_mac(RefCell(b, NAME_MACADDR)).ok
          /\ clean_ipaddr(RefCell(c, NAME_IPADDR)).ok
          /\ clean_hostname(RefCell(c, NAME_HOSTNAME)).ok
          /\ ~clean_mac(RefCell(c, NAME_MACADDR)).ok
    /\ Len(hoststxt) = 3
    /\ Len(etherstxt) = 3

\* every cell of the input file
AllCells ==
    UNION {Range(process_csv_line(input[n])) : n \in 1..Len(input)}

C5_State ==
    \A cell \in AllCells :
        /\ (~clean_hostname(cell).ok /\ clean_hostname(cell).err = "")
              <=> RefBlank(cell)
        /\ (~clean_mac(cell).ok /\ clean_mac(cell).err = "")
              <=> RefBlank(cell)

C5_ValidIp ==
    /\ pc = "loop"
    /\ lines # <<>>
    /\ LET fields == process_csv_line(Head(lines))
       IN  /\ cols.ipaddrcol < Len(fields)
           /\ cols.hostnamecol < Len(fields)
           /\ cols.maccol < Len(fields)
           /\ clean_ipaddr(fields[cols.ipaddrcol + 1]).ok

\* C5: clean_hostname and clean_mac fail with the empty reason exactly on the
\* cells that are blank after trimming; a step of the row loop on a row with
\* a valid IP prints nothing for a blank hostname or MAC cell and one line for
\* each that is present and malformed, and in both cases adds no line to that
\* field's accumulator.
C5_BlankIsSilentInvalidIsReported ==
    /\ []C5_State
    /\ [][C5_ValidIp =>
            LET fields == process_csv_line(Head(lines))
                hcell  == fields[cols.hostnamecol + 1]
                mcell  == fields[cols.maccol + 1]
                hkinds == IF ~clean_hostname(hcell).ok /\ ~RefBlank(hcell)
                          THEN <<"invalid hostname">> ELSE <<>>
                mkinds == IF ~clean_mac(mcell).ok /\ ~RefBlank(mcell)
                          THEN <<"invalid macaddr">> ELSE <<>>
            IN  /\ Len(stdout') >= Len(stdout)
                /\ SubSeq(stdout', 1, Len(stdout)) = stdout
                /\ [k \in 1..(Len(stdout') - Len(stdout)) |->
                       stdout'[Len(stdout) + k].kind] = hkinds \o mkinds
                /\ ~clean_hostname(hcell).ok => hoststxt' = hoststxt
                /\ ~clean_mac(mcell).ok => etherstxt' = etherstxt]_vars

\* rows with a valid IP were processed: one with a blank hostname, one with a
\* malformed hostname and a blank MAC; one line was printed for the three
C5_Witness ==
    /\ Running
    /\ \E a, b \in 2..(r + 1) :
          /\ clean_ipaddr(RefCell(a, NAME_IPADDR)).ok
          /\ RefBlank(RefCell(a, NAME_HOSTNAME))
          /\ clean_mac(RefCell(a, NAME_MACADDR)).ok
          /\ clean_ipaddr(RefCell(b, NAME_IPADDR)).ok
          /\ ~clean_hostname(RefCell(b, NAME_HOSTNAME)).ok
          /\ ~RefBlank(RefCell(b, NAME_HOSTNAME))
          /\ RefBlank(RefCell(b, NAME_MACADDR))
    /\ r = 2
    /\ Cardinality({k \in 1..Len(stdout) :
          stdout[k].kind \in {"invalid hostname", "invalid macaddr"}}) = 1

RowKinds == {"skipping line", "invalid hostname", "invalid macaddr"}

IsRowLine(printed) == printed.kind \in RowKinds

\* what physical lines 2..n make the row loop print, the columns being ic,
\* hc and mc
RECURSIVE RefRowLines(_, _, _, _)
RefRowLines(n, ic, hc, mc) ==
    IF n < 2 THEN <<>>
    ELSE LET cells == process_csv_line(input[n])
             ip    == clean_ipaddr(cells[ic + 1])
             host  == clean_hostname(cells[hc + 1])
             mac   == clean_mac(cells[mc + 1])
         IN  RefRowLines(n - 1, ic, hc, mc) \o
             (IF ~ip.ok
              THEN <<Printed("skipping line", n, ip.err)>>
              ELSE (IF ~host.ok /\ ~RefBlank(cells[hc + 1])
                    THEN <<Printed("invalid hostname", n, host.err)>>
                    ELSE <<>>)
                   \o
                   (IF ~mac.ok /\ ~RefBlank(cells[mc + 1])
                    THEN <<Printed("invalid macaddr", n, mac.err)>>
                    ELSE <<>>))

\* C6: every line the row loop printed carries the physical line number of
\* its row (the header is line 1), whatever the rows before it were.
C6_PrintedNumberIsThePhysicalLine ==
    Running =>
        SelectSeq(stdout, IsRowLine) =
            RefRowLines(r + 1, RefCol(NAME_IPADDR), RefCol(NAME_HOSTNAME),
                        RefCol(NAME_MACADDR))

\* after a blank line 2 and a skipped line 3, a line was printed for line 4
C6_Witness ==
    /\ pc = "done"
    /\ Running
    /\ Len(input) = 4
    /\ input[2] = <<>>
    /\ \E k \in 1..Len(stdout) : stdout[k].kind = "skipping line" /\ stdout[k].line = 2
    /\ \E k \in 1..Len(stdout) : stdout[k].kind = "skipping line" /\ stdout[k].line = 3
    /\ \E k \in 1..Len(stdout) : stdout[k].kind = "invalid macaddr" /\ stdout[k].line = 4

=============================================================================
